---- MODULE Spec2Model ----
(***************************************************************************)
(* Model of package bindec (github.com/knieriem/bindec): decoders that     *)
(* turn an integer holding flags and bit fields into a list of strings.    *)
(*                                                                         *)
(* Go's int is a two's complement integer of a platform-defined width      *)
(* (32 or 64 bits).  The model keeps the width in the variable intSize     *)
(* and computes every shift, subtraction and bitwise AND modulo            *)
(* 2^intSize, with the sign of the result taken from its top bit.          *)
(*                                                                         *)
(* A []string is a record [panic, isnil, elems]: Go distinguishes the nil  *)
(* slice from an empty non-nil slice (group.Decode tests sub == nil), and  *)
(* a Decode that ends in a run-time panic returns no slice at all, which   *)
(* the model represents by the value Panic.                                *)
(***************************************************************************)
EXTENDS Integers, Sequences, FiniteSets, TLC

VARIABLES
    intSize,    \* width in bits of Go's int on the host
    pc,         \* "build": the decoder table is being set up; "done": Decode returned
    tab,        \* the []Decoder being assembled; the decoder that is run is tab[1]
    expr,       \* for each entry of tab, the constructor call that built it:
                \* its name and arguments, and under "sub" the calls that built
                \* the decoders among the arguments
    acc,        \* the accumulator w handed to Decode
    val,        \* the value handed to Decode
    out         \* what Decode returned (a slice, or Panic)

vars == <<intSize, pc, tab, expr, acc, val, out>>

----------------------------------------------------------------------------
(* Bounds of the model *)

\* scaled-down width of int for the general specifications
IntWidth == 4
\* width of int for the TEMP_STAT example: wide enough for a uint16 register
ExampleWidth == 17
\* longest names slice handed to Val
MaxNames == 2
\* most decoders (leaves and combinators) a table is assembled from
MaxNodes == 3

----------------------------------------------------------------------------
(* Go's int arithmetic at width intSize *)

Pow2(n) == 2^n

MinInt == -Pow2(intSize - 1)
MaxInt == Pow2(intSize - 1) - 1
IntRange == MinInt..MaxInt

\* the unsigned reading of an int: its bit pattern as a natural number
Unsigned(x) == x % Pow2(intSize)

\* an integer result truncated to intSize bits, top bit as sign
ToInt(x) ==
    LET m == x % Pow2(intSize)
    IN  IF m >= Pow2(intSize - 1) THEN m - Pow2(intSize) ELSE m

\* 1 << n for an unsigned count n: bits shifted past the width are lost
ShlOne(n) == IF n >= intSize THEN 0 ELSE ToInt(Pow2(n))

\* a - b
Sub(a, b) == ToInt(a - b)

RECURSIVE AndU(_, _)
AndU(x, y) ==
    IF x = 0 \/ y = 0 THEN 0
    ELSE (x % 2) * (y % 2) + 2 * AndU(x \div 2, y \div 2)

\* a & b
And(a, b) == ToInt(AndU(Unsigned(a), Unsigned(b)))

\* a >> n on a signed int: arithmetic shift, the sign bit is replicated
Shr(a, n) ==
    IF n >= intSize THEN (IF a < 0 THEN -1 ELSE 0) ELSE a \div Pow2(n)

----------------------------------------------------------------------------
(* strings and fmt *)

HasPrefix(s, p) == Len(s) >= Len(p) /\ SubSeq(s, 1, Len(p)) = p

\* s[n:]
SliceFrom(s, n) == SubSeq(s, n + 1, Len(s))

Digit(d) == SubSeq("0123456789abcdef", d + 1, d + 1)

RECURSIVE FormatUint(_, _)
FormatUint(n, base) ==
    IF n < base THEN Digit(n)
    ELSE FormatUint(n \div base, base) \o Digit(n % base)

\* the verbs %d (base 10) and %x (base 16) applied to an int
FormatInt(n, base) ==
    IF n < 0 THEN "-" \o FormatUint(-n, base) ELSE FormatUint(n, base)

\* fmt.Sprintf(format, b) for the templates of the model; a template
\* without a verb reports its unused argument
Sprintf(format, b) ==
    CASE format = "%d" -> FormatInt(b, 10)
      [] format = "%x" -> FormatInt(b, 16)
      [] OTHER -> format \o "%!(EXTRA int=" \o FormatInt(b, 10) \o ")"

\* the caller's conversion function of Func, uninterpreted: a distinct
\* string for every field value
CallF(b) == "f(" \o FormatInt(b, 10) \o ")"

----------------------------------------------------------------------------
(* []string *)

NilSlice == [panic |-> FALSE, isnil |-> TRUE, elems |-> <<>>]
Panic == [panic |-> TRUE, isnil |-> TRUE, elems |-> <<>>]
MkSlice(s) == [panic |-> FALSE, isnil |-> FALSE, elems |-> s]

\* append(w, x)
AppendStr(w, x) == [panic |-> FALSE, isnil |-> FALSE, elems |-> Append(w.elems, x)]

----------------------------------------------------------------------------
(* constructors of the leaf decoders *)

Sig(pos, name) ==
    [kind |-> "signal", pos |-> pos, mask |-> ShlOne(pos), name |-> name,
     isFlag |-> FALSE, negate |-> FALSE]

\* Flag as it would be with the leading "!" left in the stored name
FlagKeepsBang(pos, name) ==
    [kind |-> "signal", pos |-> pos, mask |-> ShlOne(pos), name |-> name,
     isFlag |-> TRUE, negate |-> HasPrefix(name, "!")]

Flag(pos, name) ==
    LET negate == HasPrefix(name, "!")
        nm == IF negate THEN SliceFrom(name, 1) ELSE name
    IN  [kind |-> "signal", pos |-> pos, mask |-> ShlOne(pos), name |-> nm,
         isFlag |-> TRUE, negate |-> negate]

\* the mask as it would be with endBit taken as exclusive
RangeMaskExclusive(startBit, endBit) ==
    Sub(Sub(ShlOne(endBit), 1), Sub(ShlOne(startBit), 1))

\* mask := ((1 << (endBit + 1)) - 1) - ((1 << startBit) - 1)
RangeMask(startBit, endBit) ==
    Sub(Sub(ShlOne(endBit + 1), 1), Sub(ShlOne(startBit), 1))

Val(startBit, endBit, desc, names, dflt) ==
    [kind |-> "value", pos |-> startBit, mask |-> RangeMask(startBit, endBit),
     desc |-> desc, names |-> names, dflt |-> dflt]

IntDec(startBit, endBit, desc, format) ==
    [kind |-> "intval", pos |-> startBit, mask |-> RangeMask(startBit, endBit),
     desc |-> desc, format |-> format, hasF |-> FALSE]

Func(startBit, endBit, desc) ==
    [kind |-> "intval", pos |-> startBit, mask |-> RangeMask(startBit, endBit),
     desc |-> desc, format |-> "", hasF |-> TRUE]

----------------------------------------------------------------------------
(* Decode of the leaf decoders *)

\* b & v.mask >> v.pos: in Go & and >> bind equally and associate left
Field(v, b) == Shr(And(b, v.mask), v.pos)

\* signal.Decode as it would be without the special case for "<reserved>"
signalDecodeNoReserved(s, w, v) ==
    LET set == And(v, s.mask) # 0
        b == IF s.negate THEN ~set ELSE set
    IN  IF s.isFlag
        THEN AppendStr(w, IF b THEN s.name ELSE "!" \o s.name)
        ELSE IF And(v, s.mask) = 0
        THEN w
        ELSE AppendStr(w, s.name)

signalDecode(s, w, v) ==
    LET set == And(v, s.mask) # 0
        b == IF s.negate THEN ~set ELSE set
    IN  IF s.isFlag
        THEN AppendStr(w, IF b THEN s.name ELSE "!" \o s.name)
        ELSE IF And(v, s.mask) = 0
        THEN w
        ELSE IF s.name = "<reserved>"
        THEN AppendStr(w, "bit " \o FormatInt(s.pos, 10) \o ": " \o s.name)
        ELSE AppendStr(w, s.name)

\* value.Decode as it would be if an empty entry of names fell through to dflt
valueDecodeEmptyToDflt(v, w, b0) ==
    LET b == Field(v, b0)
    IN  IF b < Len(v.names) /\ b < 0
        THEN Panic
        ELSE
        LET s == IF b < Len(v.names) /\ v.names[b + 1] # "" THEN v.names[b + 1]
                 ELSE IF v.dflt # "" THEN v.dflt
                 ELSE ""
            desc == IF v.desc # "" THEN v.desc \o ": " ELSE v.desc
        IN  CASE s = "<reserved>" ->
                    AppendStr(w, desc \o FormatInt(b, 10) \o ": " \o s)
              [] s = "" -> w
              [] OTHER -> AppendStr(w, desc \o s)

valueDecode(v, w, b0) ==
    LET b == Field(v, b0)
    IN  IF b < Len(v.names) /\ b < 0
        THEN Panic      \* v.names[b] with a negative index
        ELSE
        LET s == IF b < Len(v.names) THEN v.names[b + 1]
                 ELSE IF v.dflt # "" THEN v.dflt
                 ELSE ""
            desc == IF v.desc # "" THEN v.desc \o ": " ELSE v.desc
        IN  CASE s = "<reserved>" ->
                    AppendStr(w, desc \o FormatInt(b, 10) \o ": " \o s)
              [] s = "" -> w
              [] OTHER -> AppendStr(w, desc \o s)

intvalDecode(v, w, b0) ==
    LET b == Field(v, b0)
        s == IF v.hasF THEN CallF(b) ELSE Sprintf(v.format, b)
    IN  IF v.desc = "" THEN w ELSE AppendStr(w, v.desc \o ": " \o s)

----------------------------------------------------------------------------
(* the combinators *)

\* DecoderList{d1, ..., dn}
DecoderList(ds) == [kind |-> "list", list |-> ds]

RECURSIVE Concat(_)
Concat(seqs) == IF seqs = <<>> THEN <<>> ELSE Head(seqs) \o Concat(Tail(seqs))

\* NewDecoderList(decoders ...[]Decoder): appends every sequence in turn
NewDecoderList(decoders) == DecoderList(Concat(decoders))

Shift(pos, d) == [kind |-> "shift", pos |-> pos, d |-> d]

Group(name, d) == [kind |-> "group", name |-> name, d |-> d]

RECURSIVE Decode(_, _, _)
RECURSIVE listDecode(_, _, _)

\* DecoderList.Decode as it would be if every member were handed the
\* caller's accumulator instead of the running one
listDecodeForgets(list, w, v) ==
    IF list = <<>> THEN w
    ELSE LET w1 == Decode(Head(list), w, v)
         IN  IF w1.panic THEN Panic
             ELSE IF Tail(list) = <<>> THEN w1
             ELSE listDecode(Tail(list), w, v)

\* for _, d := range list { w = d.Decode(w, val) }
listDecode(list, w, v) ==
    IF list = <<>> THEN w
    ELSE LET w1 == Decode(Head(list), w, v)
         IN  IF w1.panic THEN Panic ELSE listDecode(Tail(list), w1, v)

\* shift.Decode as it would be if the value were handed on unshifted
shiftDecodeUnshifted(s, w, v) == Decode(s.d, w, v)

shiftDecode(s, w, v) == Decode(s.d, w, Shr(v, s.pos))

RECURSIVE AppendTabbed(_, _)
\* for _, s := range sub { w = append(w, "\t"+s) }
AppendTabbed(w, sub) ==
    IF sub = <<>> THEN w
    ELSE AppendTabbed(AppendStr(w, "\t" \o Head(sub)), Tail(sub))

\* group.Decode as it would be without the test for an empty sub-output
groupDecodeAlwaysNamed(g, w, v) ==
    LET sub == Decode(g.d, NilSlice, v)
    IN  IF sub.panic THEN Panic
        ELSE AppendTabbed(AppendStr(w, g.name), sub.elems)

groupDecode(g, w, v) ==
    LET sub == Decode(g.d, NilSlice, v)
    IN  IF sub.panic THEN Panic
        ELSE IF sub.isnil THEN w
        ELSE AppendTabbed(AppendStr(w, g.name), sub.elems)

\* dynamic dispatch of Decoder.Decode
Decode(d, w, v) ==
    CASE d.kind = "signal" -> signalDecode(d, w, v)
      [] d.kind = "value"  -> valueDecode(d, w, v)
      [] d.kind = "intval" -> intvalDecode(d, w, v)
      [] d.kind = "list"   -> listDecode(d.list, w, v)
      [] d.kind = "shift"  -> shiftDecode(d, w, v)
      [] d.kind = "group"  -> groupDecode(d, w, v)

----------------------------------------------------------------------------
(* inputs *)

Positions == 0..(intSize - 1)
Ranges == {r \in Positions \X Positions : r[1] <= r[2]}

SigNames == {"A", "", "<reserved>"}
FlagNames == {"A", "!A", "!!A", "", "!", "<reserved>"}
Descs == {"", "L"}
Dflts == {"", "D", "<reserved>"}
NameEntries == {"", "X", "<reserved>"}
NamesSlices == UNION {[1..n -> NameEntries] : n \in 0..MaxNames}
Formats == {"%d", "%x", "n"}
Accs == {NilSlice, MkSlice(<<>>), MkSlice(<<"p">>)}

---------------------------------------------------------------------------------------------------------------------------------------------------
(* Spec: one leaf decoder is constructed, then run on a value *)

Init ==
    /\ intSize = IntWidth
    /\ pc = "build"
    /\ tab = <<>>
    /\ expr = <<>>
    /\ acc = NilSlice
    /\ val = 0
    /\ out = NilSlice

\* a constructor returned d; e is the call as it was written
Put(d, e) ==
    /\ pc = "build"
    /\ tab' = Append(tab, d)
    /\ expr' = Append(expr, e)
    /\ UNCHANGED <<intSize, pc, acc, val, out>>

NewSig ==
    /\ tab = <<>>
    /\ \E pos \in Positions, name \in SigNames :
          Put(Sig(pos, name), [op |-> "Sig", pos |-> pos, name |-> name])

NewFlag ==
    /\ tab = <<>>
    /\ \E pos \in Positions, name \in FlagNames :
          Put(Flag(pos, name), [op |-> "Flag", pos |-> pos, name |-> name])

NewVal ==
    /\ tab = <<>>
    /\ \E r \in Ranges, desc \in Descs, names \in NamesSlices, dflt \in Dflts :
          Put(Val(r[1], r[2], desc, names, dflt),
              [op |-> "Val", startBit |-> r[1], endBit |-> r[2], desc |-> desc,
               names |-> names, dflt |-> dflt])

NewInt ==
    /\ tab = <<>>
    /\ \E r \in Ranges, desc \in Descs, format \in Formats :
          Put(IntDec(r[1], r[2], desc, format),
              [op |-> "Int", startBit |-> r[1], endBit |-> r[2], desc |-> desc,
               format |-> format])

NewFunc ==
    /\ tab = <<>>
    /\ \E r \in Ranges, desc \in Descs :
          Put(Func(r[1], r[2], desc),
              [op |-> "Func", startBit |-> r[1], endBit |-> r[2], desc |-> desc])

\* tab[1].Decode(w, v), for w among ws
Run(ws) ==
    /\ pc = "build"
    /\ Len(tab) = 1
    /\ \E w \in ws, v \in IntRange :
          /\ acc' = w
          /\ val' = v
          /\ out' = Decode(tab[1], w, v)
    /\ pc' = "done"
    /\ UNCHANGED <<intSize, tab, expr>>

DoDecode == Run(Accs)

Next == NewSig \/ NewFlag \/ NewVal \/ NewInt \/ NewFunc \/ DoDecode

Spec == Init /\ [][Next]_vars

----------------------------------------------------------------------------
(* SpecTree: a table of decoders is assembled from leaves, DecoderList,   *)
(* NewDecoderList, Shift and Group, then run on a value                    *)

RECURSIVE Size(_)
RECURSIVE SizeAll(_)
\* number of decoders a decoder is made of
Size(d) ==
    CASE d.kind = "list" -> 1 + SizeAll(d.list)
      [] d.kind \in {"shift", "group"} -> 1 + Size(d.d)
      [] OTHER -> 1
SizeAll(ds) == IF ds = <<>> THEN 0 ELSE Size(Head(ds)) + SizeAll(Tail(ds))

Room == SizeAll(tab) < MaxNodes

TopRange == <<1, intSize - 1>>
TreeShifts == {1, intSize}
GroupNames == {"G"}

AddSig ==
    /\ Room
    /\ Put(Sig(0, "A"), [op |-> "Sig", pos |-> 0, name |-> "A"])

AddFlag ==
    /\ Room
    /\ Put(Flag(1, "!B"), [op |-> "Flag", pos |-> 1, name |-> "!B"])

AddVal ==
    /\ Room
    /\ Put(Val(TopRange[1], TopRange[2], "L", <<"", "X">>, "D"),
           [op |-> "Val", startBit |-> TopRange[1], endBit |-> TopRange[2],
            desc |-> "L", names |-> <<"", "X">>, dflt |-> "D"])

AddInt ==
    /\ Room
    /\ Put(IntDec(0, 1, "N", "%d"),
           [op |-> "Int", startBit |-> 0, endBit |-> 1, desc |-> "N",
            format |-> "%d"])

AddFunc ==
    /\ Room
    /\ Put(Func(TopRange[1], TopRange[2], "T"),
           [op |-> "Func", startBit |-> TopRange[1], endBit |-> TopRange[2],
            desc |-> "T"])

\* the last n entries of a sequence, and the entries before them
LastN(q, n) == SubSeq(q, Len(q) - n + 1, Len(q))
ButLastN(q, n) == SubSeq(q, 1, Len(q) - n)

\* the last n entries of the table become DecoderList{d1, ..., dn}
MkDecoderList ==
    /\ pc = "build"
    /\ Room
    /\ \E n \in 0..Len(tab) :
          /\ tab' = Append(ButLastN(tab, n), DecoderList(LastN(tab, n)))
          /\ expr' = Append(ButLastN(expr, n),
                            [op |-> "DecoderList", list |-> LastN(tab, n),
                             sub |-> LastN(expr, n)])
    /\ UNCHANGED <<intSize, pc, acc, val, out>>

\* the last n entries, cut in two sequences, are handed to NewDecoderList
MkNewDecoderList ==
    /\ pc = "build"
    /\ Room
    /\ \E n \in 0..Len(tab) : \E i \in 0..n :
          LET ds == LastN(tab, n)
              parts == <<SubSeq(ds, 1, i), SubSeq(ds, i + 1, n)>>
          IN  /\ tab' = Append(ButLastN(tab, n), NewDecoderList(parts))
              /\ expr' = Append(ButLastN(expr, n),
                                [op |-> "NewDecoderList", parts |-> parts,
                                 sub |-> LastN(expr, n)])
    /\ UNCHANGED <<intSize, pc, acc, val, out>>

\* the last entry d becomes Shift(k, d)
MkShift ==
    /\ pc = "build"
    /\ Room
    /\ Len(tab) >= 1
    /\ \E k \in TreeShifts :
          /\ tab' = Append(ButLastN(tab, 1), Shift(k, tab[Len(tab)]))
          /\ expr' = Append(ButLastN(expr, 1),
                            [op |-> "Shift", pos |-> k, d |-> tab[Len(tab)],
                             sub |-> expr[Len(expr)]])
    /\ UNCHANGED <<intSize, pc, acc, val, out>>

\* the last entry d becomes Group(name, d)
MkGroup ==
    /\ pc = "build"
    /\ Room
    /\ Len(tab) >= 1
    /\ \E name \in GroupNames :
          /\ tab' = Append(ButLastN(tab, 1), Group(name, tab[Len(tab)]))
          /\ expr' = Append(ButLastN(expr, 1),
                            [op |-> "Group", name |-> name, d |-> tab[Len(tab)],
                             sub |-> expr[Len(expr)]])
    /\ UNCHANGED <<intSize, pc, acc, val, out>>

TreeAccs == {NilSlice, MkSlice(<<"p">>)}

DecodeTree == Run(TreeAccs)

TreeNext ==
    \/ AddSig \/ AddFlag \/ AddVal \/ AddInt \/ AddFunc
    \/ MkDecoderList \/ MkNewDecoderList \/ MkShift \/ MkGroup
    \/ DecodeTree

SpecTree == Init /\ [][TreeNext]_vars

----------------------------------------------------------------------------
(* SpecTempStat: the TEMP_STAT register of the package example *)

\* width of the register value printTempStat takes (uint16)
RegBits == 16

tempStatReg ==
    Group("TEMP_STAT",
          DecoderList(<<Sig(0, "TEMP_READY"),
                        Sig(1, "OVERTEMP"),
                        Func(4, 13, "TEMP")>>))

InitTempStat ==
    /\ intSize = ExampleWidth
    /\ pc = "build"
    /\ tab = <<tempStatReg>>
    /\ expr = <<[op |-> "tempStatReg"]>>
    /\ acc = NilSlice
    /\ val = 0
    /\ out = NilSlice

\* fields := tempStatReg.Decode(nil, int(regVal))
printTempStat ==
    /\ pc = "build"
    /\ \E regVal \in 0..(Pow2(RegBits) - 1) :
          /\ val' = regVal
          /\ out' = Decode(tab[1], NilSlice, regVal)
    /\ acc' = NilSlice
    /\ pc' = "done"
    /\ UNCHANGED <<intSize, tab, expr>>

SpecTempStat == InitTempStat /\ [][printTempStat]_vars

----------------------------------------------------------------------------
(* vocabulary of the properties *)

\* Decode has returned (or panicked) for the decoder dec built by the call made
Done == pc = "done"
dec == tab[1]
made == expr[1]

\* bit i of the two's complement pattern of v
BitOf(v, i) == (Unsigned(v) \div Pow2(i)) % 2

\* the unsigned number formed by bits s..e of v
BitsOf(v, s, e) == (Unsigned(v) \div Pow2(s)) % Pow2(e - s + 1)

\* acc followed by the tokens toks
AccPlus(toks) ==
    IF toks = <<>> THEN acc
    ELSE [panic |-> FALSE, isnil |-> FALSE, elems |-> acc.elems \o toks]

IsRange(e) == e.op \in {"Val", "Int", "Func"}

----------------------------------------------------------------------------
(* C2: Sig *)

\* C2: for Sig(pos, name), an accumulator acc and a value v, Decode returns
\* acc followed by exactly one token when bit pos of v is 1 (the token is
\* name, or "bit {pos}: <reserved>" when name is "<reserved>"), and returns
\* acc unchanged when bit pos of v is 0.
C2_SigDecode ==
    (Done /\ made.op = "Sig") =>
        IF BitOf(val, made.pos) = 1
        THEN out = AccPlus(<<IF made.name = "<reserved>"
                             THEN "bit " \o ToString(made.pos) \o ": <reserved>"
                             ELSE made.name>>)
        ELSE out = acc

C2_Witness ==
    /\ Done /\ made.op = "Sig"
    /\ made.name = "<reserved>" /\ made.pos = intSize - 1
    /\ BitOf(val, made.pos) = 1 /\ acc.elems # <<>>
    /\ Len(out.elems) = Len(acc.elems) + 1

----------------------------------------------------------------------------
(* C3: Flag *)

\* C3: for Flag(pos, name), Decode appends exactly one token to acc: for a
\* name without leading "!", name when bit pos is 1 and "!"+name when it is
\* 0; for a name "!"+base the mapping is flipped, base when the bit is 0
\* and "!"+base when it is 1, base being name less its one leading "!".
C3_FlagDecode ==
    (Done /\ made.op = "Flag") =>
        LET name == made.name
            neg == Len(name) > 0 /\ Head(name) = "!"
            base == IF neg THEN Tail(name) ELSE name
            bit == BitOf(val, made.pos)
            tok == IF neg
                   THEN (IF bit = 0 THEN base ELSE "!" \o base)
                   ELSE (IF bit = 1 THEN base ELSE "!" \o base)
        IN  out = AccPlus(<<tok>>)

C3_Witness ==
    /\ Done /\ made.op = "Flag"
    /\ made.name = "!!A" /\ BitOf(val, made.pos) = 1
    /\ out.elems = acc.elems \o <<"!!A">>

----------------------------------------------------------------------------
(* C4, C5: Val *)

\* label + ": " for a non-empty label, "" otherwise
Prefix(label) == IF label = "" THEN "" ELSE label \o ": "

\* what the claims have Val emit for a resolved string s and field b
Emitted(label, s, b) ==
    CASE s = "" -> <<>>
      [] s = "<reserved>" -> <<Prefix(label) \o ToString(b) \o ": <reserved>">>
      [] OTHER -> <<Prefix(label) \o s>>

ValidIndex(names, b) == 0 <= b /\ b < Len(names)

\* C4: for Val(startBit, endBit, label, names, dflt) and a value with
\* extracted field b, the resolved string is names[b] when b is a valid
\* index into names, otherwise dflt when dflt is non-empty, otherwise "";
\* Decode returns acc unchanged for "", acc + [prefix + decimal(b) +
\* ": <reserved>"] for "<reserved>", and acc + [prefix + s] otherwise.
C4_ValDecode ==
    (Done /\ made.op = "Val") =>
        LET b == Field(dec, val)
            s == IF ValidIndex(made.names, b) THEN made.names[b + 1]
                 ELSE IF made.dflt # "" THEN made.dflt
                 ELSE ""
        IN  out = AccPlus(Emitted(made.desc, s, b))

\* C4 holds wherever the extracted field is not negative
C4_NonNegativeField ==
    (Done /\ made.op = "Val" /\ Field(dec, val) >= 0) => C4_ValDecode

\* C5: for a Val with a non-empty default, a field value b that is a valid
\* index into names but whose entry names[b] is "" falls back to the
\* default, exactly as an out-of-range b does: the default (with the label
\* prefix) is emitted.
C5_EmptyEntryFallsBack ==
    (Done /\ made.op = "Val" /\ made.dflt # ""
          /\ ValidIndex(made.names, Field(dec, val))
          /\ made.names[Field(dec, val) + 1] = "") =>
        out = AccPlus(Emitted(made.desc, made.dflt, Field(dec, val)))

\* C5 as amended: for a Val with a non-empty default, a field value b that
\* is a valid index into names with names[b] = "" does not fall back to the
\* default: nothing is emitted and Decode returns acc unchanged; the default
\* (with the label prefix) is emitted when b >= len(names).
C5_EmptyEntryEmitsNothing ==
    (Done /\ made.op = "Val" /\ made.dflt # "") =>
        LET b == Field(dec, val)
        IN  /\ (ValidIndex(made.names, b) /\ made.names[b + 1] = "") => out = acc
            /\ b >= Len(made.names) =>
                   out = AccPlus(Emitted(made.desc, made.dflt, b))

C5_Witness ==
    /\ Done /\ made.op = "Val" /\ made.dflt = "D" /\ made.desc = "L"
    /\ Len(made.names) = 2 /\ made.names[2] = ""
    /\ Field(dec, val) = 1 /\ made.startBit > 0
    /\ out = acc

----------------------------------------------------------------------------
(* C9, C10: totality, mask and field *)

\* C9: every decode operation is total: with bit positions inside the int
\* width and any int value, negative ones included, Decode returns a
\* sequence and never faults.
C9_DecodeTotal == Done => ~out.panic

RECURSIVE XorU(_, _)
XorU(x, y) ==
    IF x = 0 /\ y = 0 THEN 0
    ELSE ((x + y) % 2) + 2 * XorU(x \div 2, y \div 2)

\* the number whose set bits are exactly bits s..e
BitsSet(s, e) == Pow2(e + 1) - Pow2(s)

\* C10: for startBit <= endBit below the int width and every value, the
\* mask of Val, Int and Func equals ((1 << (endBit+1)) - 1) XOR
\* ((1 << startBit) - 1), has exactly bits startBit..endBit set, and the
\* field (value & mask) >> startBit is the unsigned number formed by bits
\* startBit..endBit of value, so it lies in 0 .. 2^(endBit-startBit+1) - 1.
C10_MaskAndField ==
    (Done /\ IsRange(made)) =>
        LET s == made.startBit
            e == made.endBit
        IN  /\ Unsigned(dec.mask) =
                   XorU(Unsigned(Sub(ShlOne(e + 1), 1)), Unsigned(Sub(ShlOne(s), 1)))
            /\ Unsigned(dec.mask) = BitsSet(s, e)
            /\ Field(dec, val) = BitsOf(val, s, e)
            /\ Field(dec, val) \in 0..(Pow2(e - s + 1) - 1)

\* the mask half of C10 holds throughout; the field half wherever the
\* range stops below the sign bit or the value is not negative
C10_BelowSignBit ==
    (Done /\ IsRange(made)) =>
        /\ Unsigned(dec.mask) = BitsSet(made.startBit, made.endBit)
        /\ Unsigned(dec.mask) =
               XorU(Unsigned(Sub(ShlOne(made.endBit + 1), 1)),
                    Unsigned(Sub(ShlOne(made.startBit), 1)))
        /\ (made.endBit < intSize - 1 \/ val >= 0) =>
               Field(dec, val) = BitsOf(val, made.startBit, made.endBit)

----------------------------------------------------------------------------
(* C1: the TEMP_STAT example *)

\* bit i, and the number formed by bits s..e, of a non-negative v
NatBit(v, i) == (v \div Pow2(i)) % 2
NatBits(v, s, e) == (v \div Pow2(s)) % Pow2(e - s + 1)

\* C1: for every 16-bit register value v the TEMP_STAT decoder returns,
\* from a nil accumulator, exactly "TEMP_STAT", then "\tTEMP_READY" iff
\* bit 0 of v is set, then "\tOVERTEMP" iff bit 1 is set, then
\* "\tTEMP: " + f(field) with field the number formed by bits 4..13; so
\* 0x1a53 (6739) gives all four lines with field 421, 0x1759 (5977) gives
\* TEMP_STAT, TEMP_READY and TEMP with field 373, and 0x1758 (5976) gives
\* TEMP_STAT and TEMP with field 373.
C1_TempStat ==
    Done =>
        /\ ~out.panic
        /\ out.elems =
               <<"TEMP_STAT">>
               \o (IF NatBit(val, 0) = 1 THEN <<"\tTEMP_READY">> ELSE <<>>)
               \o (IF NatBit(val, 1) = 1 THEN <<"\tOVERTEMP">> ELSE <<>>)
               \o <<"\tTEMP: " \o CallF(NatBits(val, 4, 13))>>
        /\ val = 6739 =>
               out.elems = <<"TEMP_STAT", "\tTEMP_READY", "\tOVERTEMP",
                             "\tTEMP: " \o CallF(421)>>
        /\ val = 5977 =>
               out.elems = <<"TEMP_STAT", "\tTEMP_READY", "\tTEMP: " \o CallF(373)>>
        /\ val = 5976 =>
               out.elems = <<"TEMP_STAT", "\tTEMP: " \o CallF(373)>>

C1_Witness ==
    /\ Done /\ val = 5976
    /\ out.elems = <<"TEMP_STAT", "\tTEMP: f(373)">>

----------------------------------------------------------------------------
(* C6: DecoderList and NewDecoderList *)

\* the output of each decoder of ds, run on v from an empty accumulator
Outputs(ds, v) == [i \in 1..Len(ds) |-> Decode(ds[i], NilSlice, v)]

\* the []Decoder sequences a list was built from
PartsOf(e) == IF e.op = "NewDecoderList" THEN e.parts ELSE <<e.list>>

IsList(e) == e.op \in {"DecoderList", "NewDecoderList"}

\* acc followed by the outputs outs, in order
ListOutput(outs) ==
    IF \E i \in 1..Len(outs) : outs[i].panic THEN Panic
    ELSE AccPlus(Concat([i \in 1..Len(outs) |-> outs[i].elems]))

\* the list cut in a and b decodes to out, nested or flattened
SplitAgrees(a, b) ==
    /\ Decode(DecoderList(<<DecoderList(a), DecoderList(b)>>), acc, val) = out
    /\ Decode(NewDecoderList(<<a, b>>), acc, val) = out

\* C6: a list built as DecoderList{d1, ..., dn}, or by NewDecoderList from
\* sequences whose concatenation is d1, ..., dn, returns acc followed by the
\* output of d1, then d2, ..., then dn on the same v (a member that faults
\* makes the whole Decode fault); and cutting d1, ..., dn in two nested
\* lists, or flattening them with NewDecoderList, gives the same result.
C6_ListDecode ==
    (Done /\ IsList(made)) =>
        LET ds == Concat(PartsOf(made))
        IN  /\ out = ListOutput(Outputs(ds, val))
            /\ Decode(DecoderList(ds), acc, val) = out
            /\ \A i \in 0..Len(ds) : SplitAgrees(SubSeq(ds, 1, i), SubSeq(ds, i + 1, Len(ds)))

C6_Witness ==
    /\ Done /\ made.op = "NewDecoderList"
    /\ Len(made.parts[1]) = 1 /\ Len(made.parts[2]) = 1
    /\ made.sub[1].op = "Val" /\ made.sub[2].op = "Sig"
    /\ acc.elems = <<"p">>
    /\ out.elems = <<"p", "L: X", "A">>

----------------------------------------------------------------------------
(* C7: Group *)

RECURSIVE Tabs(_)
Tabs(k) == IF k = 0 THEN "" ELSE "\t" \o Tabs(k - 1)

Tabbed(lines, k) == [i \in 1..Len(lines) |-> Tabs(k) \o lines[i]]

RECURSIVE LinesUnder(_, _, _)
RECURSIVE LinesUnderAll(_, _, _)
\* the lines a decoder tree produces for v when it stands under k Groups:
\* every line of a leaf with k tabs, every name of a Group that has output
\* with as many tabs as Groups enclose it
LinesUnder(d, v, k) ==
    CASE d.kind = "list" -> LinesUnderAll(d.list, v, k)
      [] d.kind = "shift" -> LinesUnder(d.d, Shr(v, d.pos), k)
      [] d.kind = "group" ->
            LET sub == LinesUnder(d.d, v, k + 1)
            IN  IF sub = <<>> THEN <<>> ELSE <<Tabs(k) \o d.name>> \o sub
      [] OTHER -> Tabbed(Decode(d, NilSlice, v).elems, k)
LinesUnderAll(ds, v, k) ==
    IF ds = <<>> THEN <<>>
    ELSE LinesUnder(Head(ds), v, k) \o LinesUnderAll(Tail(ds), v, k)

\* C7: Group(name, d) runs d on an empty accumulator of its own; if that
\* output has no elements the result is acc unchanged, without name;
\* otherwise it is acc + [name] + ["\t" + line for each line of the output],
\* in order, so a line produced under k nested Groups has exactly k leading
\* tabs (a sub-decoder that faults makes the whole Decode fault).
C7_GroupDecode ==
    (Done /\ made.op = "Group") =>
        LET sub == Decode(made.d, NilSlice, val)
        IN  IF sub.panic THEN out = Panic
            ELSE /\ Len(sub.elems) = 0 => out = acc
                 /\ Len(sub.elems) > 0 =>
                        out = AccPlus(<<made.name>> \o Tabbed(sub.elems, 1))
                 /\ out.elems = acc.elems \o LinesUnder(dec, val, 0)

C7_Witness ==
    /\ Done /\ made.op = "Group" /\ made.sub.op = "Group"
    /\ acc.elems = <<"p">>
    /\ out.elems = <<"p", "G", "\tG", "\t\tA">>

----------------------------------------------------------------------------
(* C8: Shift *)

IsLeaf(e) == e.op \in {"Sig", "Flag", "Val", "Int", "Func"}

\* what a leaf built by the call e emits for a non-negative v when each of
\* its bit positions is taken k bits higher
LeafAt(e, k, v) ==
    CASE e.op = "Sig" ->
            IF NatBit(v, e.pos + k) = 1 THEN <<e.name>> ELSE <<>>
      [] e.op = "Flag" ->
            LET neg == Len(e.name) > 0 /\ Head(e.name) = "!"
                base == IF neg THEN Tail(e.name) ELSE e.name
            IN  <<IF (NatBit(v, e.pos + k) = 1) # neg THEN base ELSE "!" \o base>>
      [] e.op = "Val" ->
            LET b == NatBits(v, e.startBit + k, e.endBit + k)
            IN  Emitted(e.desc,
                        IF ValidIndex(e.names, b) THEN e.names[b + 1] ELSE e.dflt,
                        b)
      [] e.op = "Int" ->
            IF e.desc = "" THEN <<>>
            ELSE <<e.desc \o ": " \o
                   ToString(NatBits(v, e.startBit + k, e.endBit + k))>>
      [] e.op = "Func" ->
            <<e.desc \o ": " \o CallF(NatBits(v, e.startBit + k, e.endBit + k))>>

\* C8: Shift(k, d).Decode(acc, v) equals d.Decode(acc, v >> k), acc handed
\* through and d's bit positions as they are; so for a non-negative v a
\* Sig or Flag at bit p, or a Val, Int or Func at bits s..e, wrapped in
\* Shift(k) decodes bit p+k, respectively bits s+k..e+k, of v.
C8_ShiftDecode ==
    (Done /\ made.op = "Shift") =>
        /\ out = Decode(made.d, acc, Shr(val, made.pos))
        /\ (val >= 0 /\ IsLeaf(made.sub)) =>
               out = AccPlus(LeafAt(made.sub, made.pos, val))

C8_Witness ==
    /\ Done /\ made.op = "Shift" /\ made.pos = 1
    /\ made.sub.op = "Val" /\ made.sub.startBit = 1
    /\ val = 4
    /\ out.elems = acc.elems \o <<"L: X">>

====
